---- MODULE Spec2Model ----
(***************************************************************************)
(* Model of scripts/sync_icons.py: the icon synchronisation run.  The      *)
(* script builds two name indices from the raw dataset, resolves every     *)
(* unit and civilisation to an icon file, copies the icon and records the  *)
(* outcome in a manifest.                                                  *)
(*                                                                         *)
(* Python strings are sequences of one-character strings.  Python values   *)
(* that may be None are tagged records (PyNone, PyStr, PyInt).  Object     *)
(* keys of the dataset are canonical decimal strings and are modelled by   *)
(* the number they denote (the script compares them through int()).        *)
(* Identifiers of units and civilisations are slugs without a ".".         *)
(***************************************************************************)
EXTENDS Integers, Sequences, FiniteSets, TLC

VARIABLES
    objects,            \* aoc['objects']: the (key, value) pairs in iteration order
    civilizations,      \* aoc['civilizations']: its values in iteration order
    units,              \* data/units.json: list of unit records
    civs,               \* data/civilisations.json: list of civilisation records
    srcFiles,           \* files present under ICON_SRC
    pc,                 \* position of the script
    i,                  \* index of the loop in progress
    name_to_objid,      \* dict: list of [k, v] in insertion order
    civ_name_to_iconid, \* dict as a function
    norm_to_objid,      \* dict as a function
    manifest,           \* the manifest under construction
    outFiles,           \* files under REPO/assets: path -> content
    copies,             \* the shutil.copyfile calls made so far
    written,            \* content of data/icons.json
    arg,                \* norm: the argument
    res1,               \* norm(arg)
    res2                \* norm(norm(arg))

vars == <<objects, civilizations, units, civs, srcFiles, pc, i, name_to_objid,
          civ_name_to_iconid, norm_to_objid, manifest, outFiles, copies,
          written, arg, res1, res2>>

inputs == <<objects, civilizations, units, civs, srcFiles>>

(***************************************************************************)
(* Bounds.                                                                 *)
(***************************************************************************)
MaxObjects == 2
MaxEntries == 2
MaxLen == 4

(***************************************************************************)
(* Python values.                                                          *)
(***************************************************************************)
PyNone == [t |-> "None"]
PyStr(s) == [t |-> "str", s |-> s]
PyInt(n) == [t |-> "int", n |-> n]

\* bool(v) for the values the script tests with "not v"
Truthy(v) == (v.t = "str" /\ v.s # <<>>) \/ (v.t = "int" /\ v.n # 0)

MinOf(S) == CHOOSE m \in S : \A n \in S : m <= n
MaxOf(S) == CHOOSE m \in S : \A n \in S : m >= n

(***************************************************************************)
(* String operations.                                                      *)
(***************************************************************************)
Uppers == <<"A","B","C","D","E","F","G","H","I","J","K","L","M",
            "N","O","P","Q","R","S","T","U","V","W","X","Y","Z">>
Lowers == <<"a","b","c","d","e","f","g","h","i","j","k","l","m",
            "n","o","p","q","r","s","t","u","v","w","x","y","z">>
Digits == {"0","1","2","3","4","5","6","7","8","9"}
Whitespace == {" ", "\t", "\n", "\r", "\f"}

UpperSet == {Uppers[j] : j \in 1..26}
LowerSet == {Lowers[j] : j \in 1..26}

LowerChar(c) ==
    IF c \in UpperSet
    THEN Lowers[CHOOSE j \in 1..26 : Uppers[j] = c]
    ELSE c

\* str.lower()
Lower(s) == [j \in 1..Len(s) |-> LowerChar(s[j])]

\* str.strip()
Strip(s) ==
    LET keep == {j \in 1..Len(s) : s[j] \notin Whitespace}
    IN  IF keep = {} THEN <<>> ELSE SubSeq(s, MinOf(keep), MaxOf(keep))

\* str.replace(old, new): leftmost non-overlapping occurrences
RECURSIVE Replace(_, _, _)
Replace(s, old, new) ==
    IF Len(s) < Len(old) THEN s
    ELSE IF SubSeq(s, 1, Len(old)) = old
         THEN new \o Replace(SubSeq(s, Len(old) + 1, Len(s)), old, new)
         ELSE <<Head(s)>> \o Replace(Tail(s), old, new)

\* str.startswith(prefix)
StartsWith(s, prefix) ==
    Len(s) >= Len(prefix) /\ SubSeq(s, 1, Len(prefix)) = prefix

\* the class [a-z0-9]
IsAlnum(c) == c \in Digits \/ c \in LowerSet

\* re.sub(r"\([^)]*\)", "", s): drop "(" up to the first ")" after it
RECURSIVE SubParens(_)
SubParens(s) ==
    IF s = <<>> THEN <<>>
    ELSE IF Head(s) = "(" /\ \E j \in 2..Len(s) : s[j] = ")"
         THEN LET close == MinOf({j \in 2..Len(s) : s[j] = ")"})
              IN  SubParens(SubSeq(s, close + 1, Len(s)))
         ELSE <<Head(s)>> \o SubParens(Tail(s))

\* re.sub(r"[^a-z0-9]+", " ", s): every maximal run becomes one space
RECURSIVE SubNonAlnumFrom(_, _)
SubNonAlnumFrom(s, inRun) ==
    IF s = <<>> THEN <<>>
    ELSE IF IsAlnum(Head(s))
         THEN <<Head(s)>> \o SubNonAlnumFrom(Tail(s), FALSE)
         ELSE (IF inRun THEN <<>> ELSE <<" ">>) \o SubNonAlnumFrom(Tail(s), TRUE)

SubNonAlnum(s) == SubNonAlnumFrom(s, FALSE)

\* re.sub(r"\s+", " ", s)
RECURSIVE SubSpacesFrom(_, _)
SubSpacesFrom(s, inRun) ==
    IF s = <<>> THEN <<>>
    ELSE IF Head(s) \notin Whitespace
         THEN <<Head(s)>> \o SubSpacesFrom(Tail(s), FALSE)
         ELSE (IF inRun THEN <<>> ELSE <<" ">>) \o SubSpacesFrom(Tail(s), TRUE)

SubSpaces(s) == SubSpacesFrom(s, FALSE)

\* the three characters of the literal on line 44
Mojibake == <<"U+00E2", "U+20AC", "U+2122">>

\* norm without the final strip (a plausible slip)
norm_nostrip(s) ==
    SubSpaces(SubNonAlnum(Replace(SubParens(Strip(Lower(s))), Mojibake, <<"'">>)))

\* norm(s)
norm(s) ==
    Strip(SubSpaces(SubNonAlnum(
        Replace(SubParens(Strip(Lower(s))), Mojibake, <<"'">>))))

(***************************************************************************)
(* Dicts whose iteration order matters: a list of [k, v] in insertion      *)
(* order; assigning to a present key keeps its position.                   *)
(***************************************************************************)
DictHas(d, key) == \E j \in 1..Len(d) : d[j].k = key
DictGet(d, key) == d[CHOOSE j \in 1..Len(d) : d[j].k = key].v
DictPut(d, key, val) ==
    IF DictHas(d, key)
    THEN [j \in 1..Len(d) |-> IF d[j].k = key THEN [k |-> key, v |-> val] ELSE d[j]]
    ELSE Append(d, [k |-> key, v |-> val])
DictKeys(d) == {d[j].k : j \in 1..Len(d)}

(***************************************************************************)
(* The indices (lines 21-52).                                              *)
(***************************************************************************)
\* one iteration of the loop of lines 25-32 that keeps the first id seen
name_to_objid_step_first(d, o) ==
    IF o.v.t # "str" THEN d
    ELSE LET name == Strip(o.v.s)
         IN  IF name = <<>> THEN d
             ELSE IF ~DictHas(d, name) THEN DictPut(d, name, o.k) ELSE d

\* one iteration of the loop of lines 25-32
name_to_objid_step(d, o) ==
    IF o.v.t # "str" THEN d
    ELSE LET name == Strip(o.v.s)
         IN  IF name = <<>> THEN d
             ELSE IF ~DictHas(d, name) \/ o.k < DictGet(d, name)
                  THEN DictPut(d, name, o.k)
                  ELSE d

\* the loop of lines 24-32 over objs, from the dict d
RECURSIVE build_name_to_objid(_, _)
build_name_to_objid(d, objs) ==
    IF objs = <<>> THEN d
    ELSE build_name_to_objid(name_to_objid_step(d, Head(objs)), Tail(objs))

\* the loop of lines 36-39: a later value with the same name overwrites
RECURSIVE build_civ_name_to_iconid(_, _)
build_civ_name_to_iconid(f, cs) ==
    IF cs = <<>> THEN f
    ELSE LET v == Head(cs)
             g == IF v.t = "dict" /\ v.hasName /\ v.hasId /\ v.id # PyNone
                  THEN [n \in DOMAIN f \cup {v.name} |->
                            IF n = v.name THEN v.id.n ELSE f[n]]
                  ELSE f
         IN  build_civ_name_to_iconid(g, Tail(cs))

\* the loop body of lines 50-52 keyed by the raw name instead of norm(name)
norm_to_objid_step_raw(f, item) ==
    IF item.k \in DOMAIN f THEN f
    ELSE [m \in DOMAIN f \cup {item.k} |-> IF m = item.k THEN item.v ELSE f[m]]

\* one iteration of the loop of lines 50-52: dict.setdefault
norm_to_objid_step(f, item) ==
    LET n == norm(item.k)
    IN  IF n \in DOMAIN f THEN f
        ELSE [m \in DOMAIN f \cup {n} |-> IF m = n THEN item.v ELSE f[m]]

\* the loop of lines 49-52 over the items of name_to_objid
RECURSIVE build_norm_to_objid(_, _)
build_norm_to_objid(f, items) ==
    IF items = <<>> THEN f
    ELSE build_norm_to_objid(norm_to_objid_step(f, Head(items)), Tail(items))

EmptyFun == [x \in {} |-> 0]

ManAtArmsSpaced == <<"m","a","n"," ","a","t"," ","a","r","m","s">>
ManAtArmsHyphen == <<"m","a","n","-","a","t","-","a","r","m","s">>

\* find_objid with the normalized lookup tried before the exact one
find_objid_normfirst(unit_name) ==
    LET n  == norm(unit_name)
        n2 == Replace(n, ManAtArmsSpaced, ManAtArmsHyphen)
    IN  IF n \in DOMAIN norm_to_objid
        THEN [objid |-> PyInt(norm_to_objid[n]), matched_name |-> PyNone]
        ELSE IF DictHas(name_to_objid, unit_name)
        THEN [objid |-> PyInt(DictGet(name_to_objid, unit_name)),
              matched_name |-> PyStr(unit_name)]
        ELSE IF n2 \in DOMAIN norm_to_objid
        THEN [objid |-> PyInt(norm_to_objid[n2]), matched_name |-> PyNone]
        ELSE [objid |-> PyNone, matched_name |-> PyNone]

\* find_objid(unit_name) -> (objid, matched_name)
find_objid(unit_name) ==
    LET n  == norm(unit_name)
        n2 == Replace(n, ManAtArmsSpaced, ManAtArmsHyphen)
    IN  IF DictHas(name_to_objid, unit_name)
        THEN [objid |-> PyInt(DictGet(name_to_objid, unit_name)),
              matched_name |-> PyStr(unit_name)]
        ELSE IF n \in DOMAIN norm_to_objid
        THEN [objid |-> PyInt(norm_to_objid[n]), matched_name |-> PyNone]
        ELSE IF n2 \in DOMAIN norm_to_objid
        THEN [objid |-> PyInt(norm_to_objid[n2]), matched_name |-> PyNone]
        ELSE [objid |-> PyNone, matched_name |-> PyNone]

(***************************************************************************)
(* Paths and files.  A file under ICON_SRC is [dir, key, ext]: the file    *)
(* ICON_SRC/<dir>/<key><ext>.  A file under REPO is [dir, name].  The      *)
(* content of a copied file is the ICON_SRC file its bytes come from.      *)
(***************************************************************************)
ExtPng  == <<".","p","n","g">>
ExtJpg  == <<".","j","p","g">>
ExtJpeg == <<".","j","p","e","g">>
ExtWebp == <<".","w","e","b","p">>

\* the list of line 71
Exts == <<ExtPng, ExtJpg, ExtJpeg, ExtWebp>>

SrcFile(dir, key, ext) == [dir |-> dir, key |-> key, ext |-> ext]
OutFile(dir, name) == [dir |-> dir, name |-> name]

\* PurePath.suffix of a file name
Suffix(name) ==
    LET dots == {p \in 2..(Len(name) - 1) : name[p] = "."}
    IN  IF dots = {} THEN <<>> ELSE SubSeq(name, MaxOf(dots), Len(name))

\* PurePath.with_suffix(ext).name of a file name
WithSuffix(name, ext) ==
    SubSeq(name, 1, Len(name) - Len(Suffix(name))) \o ext

\* shutil.copyfile(src, dst) where src is under ICON_SRC
CopyFromSrc(files, src, dst) == (dst :> src) @@ files

\* shutil.copyfile(src, dst) where src is under REPO
CopyFromOut(files, src, dst) == (dst :> files[src]) @@ files

\* copy_best that takes the last existing extension instead of the first
copy_best_last(dir, key, destDir, destName, files, log) ==
    LET hits == {j \in 1..Len(Exts) : SrcFile(dir, key, Exts[j]) \in srcFiles}
    IN  IF hits = {}
        THEN [fname |-> PyNone, files |-> files, log |-> log]
        ELSE LET ext == Exts[MaxOf(hits)]
                 src == SrcFile(dir, key, ext)
                 dst == OutFile(destDir, WithSuffix(destName, ext))
             IN  [fname |-> PyStr(dst.name),
                  files |-> CopyFromSrc(files, src, dst),
                  log   |-> Append(log, [src |-> src, dst |-> dst])]

\* copy_best(src_base, dest): src_base = ICON_SRC/dir/key, dest = destDir/destName
copy_best(dir, key, destDir, destName, files, log) ==
    LET hits == {j \in 1..Len(Exts) : SrcFile(dir, key, Exts[j]) \in srcFiles}
    IN  IF hits = {}
        THEN [fname |-> PyNone, files |-> files, log |-> log]
        ELSE LET ext == Exts[MinOf(hits)]
                 src == SrcFile(dir, key, ext)
                 dst == OutFile(destDir, WithSuffix(destName, ext))
             IN  [fname |-> PyStr(dst.name),
                  files |-> CopyFromSrc(files, src, dst),
                  log   |-> Append(log, [src |-> src, dst |-> dst])]

UnitsDir == "assets/units"
CivsDir  == "assets/civs"

(***************************************************************************)
(* The units loop (lines 86-145).                                          *)
(***************************************************************************)
Elite == <<"e","l","i","t","e","_">>

\* uid[len('elite_'):]
base_of(uid) == SubSeq(uid, Len(Elite) + 1, Len(uid))

U == units[i]

\* lines 94-99 and 120-126: an elite unit whose base has a manifest entry
\* with an existing file
CanFallBack(uid) ==
    /\ StartsWith(uid, Elite)
    /\ base_of(uid) \in DOMAIN manifest.units
    /\ manifest.units[base_of(uid)].src \in DOMAIN outFiles

\* lines 100-101 and 128-129: the copy of the base unit's file
FallbackDest(uid) ==
    OutFile(UnitsDir, uid \o Suffix(manifest.units[base_of(uid)].src.name))

Resolved == find_objid(U.name.s)

\* line 115
Copied == copy_best("objects", Resolved.objid.n, UnitsDir, U.id.s, outFiles, copies)

\* lines 137-145
UnitEntry(name, objid, fname, matched_name, fallback_from) ==
    LET e == [name |-> name, objectId |-> objid, src |-> OutFile(UnitsDir, fname)]
    IN  IF Truthy(matched_name) /\ Truthy(fallback_from)
        THEN [name |-> e.name, objectId |-> e.objectId, src |-> e.src,
              matchedName |-> matched_name, fallbackFrom |-> fallback_from]
        ELSE IF Truthy(matched_name)
        THEN [name |-> e.name, objectId |-> e.objectId, src |-> e.src,
              matchedName |-> matched_name]
        ELSE IF Truthy(fallback_from)
        THEN [name |-> e.name, objectId |-> e.objectId, src |-> e.src,
              fallbackFrom |-> fallback_from]
        ELSE e

\* lines 89-90 recording the record it skips as unmatched
UnitSkip_recorded ==
    /\ pc = "units" /\ i <= Len(units)
    /\ ~Truthy(U.id) \/ ~Truthy(U.name)
    /\ manifest' = [manifest EXCEPT !.unmatched_units =
                        Append(@, [id |-> U.id, name |-> U.name,
                                   reason |-> "no id or name"])]
    /\ i' = i + 1
    /\ UNCHANGED <<inputs, pc, name_to_objid, civ_name_to_iconid, norm_to_objid,
                   outFiles, copies, written, arg, res1, res2>>

\* lines 87-90
UnitSkip ==
    /\ pc = "units" /\ i <= Len(units)
    /\ ~Truthy(U.id) \/ ~Truthy(U.name)
    /\ i' = i + 1
    /\ UNCHANGED <<inputs, pc, name_to_objid, civ_name_to_iconid, norm_to_objid,
                   manifest, outFiles, copies, written, arg, res1, res2>>

\* lines 92-110
UnitEliteNoObjid ==
    /\ pc = "units" /\ i <= Len(units)
    /\ Truthy(U.id) /\ Truthy(U.name)
    /\ Resolved.objid = PyNone
    /\ CanFallBack(U.id.s)
    /\ LET src == manifest.units[base_of(U.id.s)].src
           dst == FallbackDest(U.id.s)
       IN  /\ outFiles' = CopyFromOut(outFiles, src, dst)
           /\ copies' = Append(copies, [src |-> src, dst |-> dst])
           /\ manifest' = [manifest EXCEPT !.units = (U.id.s :>
                  [name |-> U.name, objectId |-> PyNone, src |-> dst,
                   fallbackFrom |-> PyStr(base_of(U.id.s)),
                   reason |-> "elite fallback (no objectId match)"]) @@ @]
    /\ i' = i + 1
    /\ UNCHANGED <<inputs, pc, name_to_objid, civ_name_to_iconid, norm_to_objid,
                   written, arg, res1, res2>>

\* lines 92-99, 111-112
UnitNoObjid ==
    /\ pc = "units" /\ i <= Len(units)
    /\ Truthy(U.id) /\ Truthy(U.name)
    /\ Resolved.objid = PyNone
    /\ ~CanFallBack(U.id.s)
    /\ manifest' = [manifest EXCEPT !.unmatched_units =
                        Append(@, [id |-> U.id, name |-> U.name])]
    /\ i' = i + 1
    /\ UNCHANGED <<inputs, pc, name_to_objid, civ_name_to_iconid, norm_to_objid,
                   outFiles, copies, written, arg, res1, res2>>

\* lines 113-115, 133, 137-145 with an icon file of the unit's own
UnitMatched ==
    /\ pc = "units" /\ i <= Len(units)
    /\ Truthy(U.id) /\ Truthy(U.name)
    /\ Resolved.objid # PyNone
    /\ Copied.fname # PyNone
    /\ outFiles' = Copied.files
    /\ copies' = Copied.log
    /\ manifest' = [manifest EXCEPT !.units = (U.id.s :>
           UnitEntry(U.name, Resolved.objid, Copied.fname.s,
                     Resolved.matched_name, PyNone)) @@ @]
    /\ i' = i + 1
    /\ UNCHANGED <<inputs, pc, name_to_objid, civ_name_to_iconid, norm_to_objid,
                   written, arg, res1, res2>>

\* lines 113-131, 137-145: no icon file, the base unit's file is reused
UnitEliteNoFile ==
    /\ pc = "units" /\ i <= Len(units)
    /\ Truthy(U.id) /\ Truthy(U.name)
    /\ Resolved.objid # PyNone
    /\ Copied.fname = PyNone
    /\ CanFallBack(U.id.s)
    /\ LET src == manifest.units[base_of(U.id.s)].src
           dst == FallbackDest(U.id.s)
       IN  /\ outFiles' = CopyFromOut(outFiles, src, dst)
           /\ copies' = Append(copies, [src |-> src, dst |-> dst])
           /\ manifest' = [manifest EXCEPT !.units = (U.id.s :>
                  UnitEntry(U.name, Resolved.objid, dst.name,
                            Resolved.matched_name, PyStr(base_of(U.id.s)))) @@ @]
    /\ i' = i + 1
    /\ UNCHANGED <<inputs, pc, name_to_objid, civ_name_to_iconid, norm_to_objid,
                   written, arg, res1, res2>>

\* lines 133-145 with the "continue" of line 135 missing: the unit is recorded
\* as unmatched and an entry is written for it all the same
UnitNoFile_fallthrough ==
    /\ pc = "units" /\ i <= Len(units)
    /\ Truthy(U.id) /\ Truthy(U.name)
    /\ Resolved.objid # PyNone
    /\ Copied.fname = PyNone
    /\ ~CanFallBack(U.id.s)
    /\ manifest' = [manifest EXCEPT
           !.unmatched_units = Append(@, [id |-> U.id, name |-> U.name,
                                          objectId |-> Resolved.objid,
                                          reason |-> "no icon file"]),
           !.units = (U.id.s :>
               UnitEntry(U.name, Resolved.objid, <<"N","o","n","e">>,
                         Resolved.matched_name, PyNone)) @@ @]
    /\ i' = i + 1
    /\ UNCHANGED <<inputs, pc, name_to_objid, civ_name_to_iconid, norm_to_objid,
                   outFiles, copies, written, arg, res1, res2>>

\* lines 113-126, 133-135
UnitNoFile ==
    /\ pc = "units" /\ i <= Len(units)
    /\ Truthy(U.id) /\ Truthy(U.name)
    /\ Resolved.objid # PyNone
    /\ Copied.fname = PyNone
    /\ ~CanFallBack(U.id.s)
    /\ manifest' = [manifest EXCEPT !.unmatched_units =
                        Append(@, [id |-> U.id, name |-> U.name,
                                   objectId |-> Resolved.objid,
                                   reason |-> "no icon file"])]
    /\ i' = i + 1
    /\ UNCHANGED <<inputs, pc, name_to_objid, civ_name_to_iconid, norm_to_objid,
                   outFiles, copies, written, arg, res1, res2>>

\* the loop of line 86 is exhausted
UnitsDone ==
    /\ pc = "units" /\ i > Len(units)
    /\ pc' = "civs"
    /\ i' = 1
    /\ UNCHANGED <<inputs, name_to_objid, civ_name_to_iconid, norm_to_objid,
                   manifest, outFiles, copies, written, arg, res1, res2>>

(***************************************************************************)
(* The civilisations loop (lines 148-167).                                 *)
(***************************************************************************)
C == civs[i]

\* line 159
CivCopied ==
    copy_best("civilizations", civ_name_to_iconid[C.name.s], CivsDir, C.id.s,
              outFiles, copies)

\* lines 151-152
CivSkip ==
    /\ pc = "civs" /\ i <= Len(civs)
    /\ ~Truthy(C.id) \/ ~Truthy(C.name)
    /\ i' = i + 1
    /\ UNCHANGED <<inputs, pc, name_to_objid, civ_name_to_iconid, norm_to_objid,
                   manifest, outFiles, copies, written, arg, res1, res2>>

\* lines 153-156
CivNoIconId ==
    /\ pc = "civs" /\ i <= Len(civs)
    /\ Truthy(C.id) /\ Truthy(C.name)
    /\ C.name.s \notin DOMAIN civ_name_to_iconid
    /\ manifest' = [manifest EXCEPT !.unmatched_civs =
                        Append(@, [id |-> C.id, name |-> C.name,
                                   reason |-> "no civ id in dataset"])]
    /\ i' = i + 1
    /\ UNCHANGED <<inputs, pc, name_to_objid, civ_name_to_iconid, norm_to_objid,
                   outFiles, copies, written, arg, res1, res2>>

\* lines 157-162
CivNoFile ==
    /\ pc = "civs" /\ i <= Len(civs)
    /\ Truthy(C.id) /\ Truthy(C.name)
    /\ C.name.s \in DOMAIN civ_name_to_iconid
    /\ CivCopied.fname = PyNone
    /\ manifest' = [manifest EXCEPT !.unmatched_civs =
                        Append(@, [id |-> C.id, name |-> C.name,
                                   iconId |-> PyInt(civ_name_to_iconid[C.name.s]),
                                   reason |-> "no icon file"])]
    /\ i' = i + 1
    /\ UNCHANGED <<inputs, pc, name_to_objid, civ_name_to_iconid, norm_to_objid,
                   outFiles, copies, written, arg, res1, res2>>

\* lines 157-167
CivMatched ==
    /\ pc = "civs" /\ i <= Len(civs)
    /\ Truthy(C.id) /\ Truthy(C.name)
    /\ C.name.s \in DOMAIN civ_name_to_iconid
    /\ CivCopied.fname # PyNone
    /\ outFiles' = CivCopied.files
    /\ copies' = CivCopied.log
    /\ manifest' = [manifest EXCEPT !.civilisations = (C.id.s :>
           [name |-> C.name, iconId |-> PyInt(civ_name_to_iconid[C.name.s]),
            src |-> OutFile(CivsDir, CivCopied.fname.s)]) @@ @]
    /\ i' = i + 1
    /\ UNCHANGED <<inputs, pc, name_to_objid, civ_name_to_iconid, norm_to_objid,
                   written, arg, res1, res2>>

\* the loop of line 148 is exhausted
CivsDone ==
    /\ pc = "civs" /\ i > Len(civs)
    /\ pc' = "write"
    /\ UNCHANGED <<inputs, i, name_to_objid, civ_name_to_iconid, norm_to_objid,
                   manifest, outFiles, copies, written, arg, res1, res2>>

\* line 169: the manifest is serialised with sorted keys and written
WriteManifest ==
    /\ pc = "write"
    /\ written' = manifest
    /\ pc' = "done"
    /\ UNCHANGED <<inputs, i, name_to_objid, civ_name_to_iconid, norm_to_objid,
                   manifest, outFiles, copies, arg, res1, res2>>

(***************************************************************************)
(* Building the indices.                                                   *)
(***************************************************************************)
\* lines 22-32
BuildNameToObjid ==
    /\ pc = "name_to_objid"
    /\ name_to_objid' = build_name_to_objid(<<>>, objects)
    /\ pc' = "civ_name_to_iconid"
    /\ UNCHANGED <<inputs, i, civ_name_to_iconid, norm_to_objid, manifest,
                   outFiles, copies, written, arg, res1, res2>>

\* lines 36-39
BuildCivNameToIconid ==
    /\ pc = "civ_name_to_iconid"
    /\ civ_name_to_iconid' = build_civ_name_to_iconid(EmptyFun, civilizations)
    /\ pc' = "norm_to_objid"
    /\ UNCHANGED <<inputs, i, name_to_objid, norm_to_objid, manifest,
                   outFiles, copies, written, arg, res1, res2>>

\* lines 49-52, and the empty manifest of lines 78-83
BuildNormToObjid ==
    /\ pc = "norm_to_objid"
    /\ norm_to_objid' = build_norm_to_objid(EmptyFun, name_to_objid)
    /\ pc' = "units"
    /\ i' = 1
    /\ UNCHANGED <<inputs, name_to_objid, civ_name_to_iconid, manifest,
                   outFiles, copies, written, arg, res1, res2>>

(***************************************************************************)
(* Inputs.                                                                 *)
(***************************************************************************)
SeqsUpTo(S, n) == UNION {[1..m -> S] : m \in 0..n}

ab          == <<"a","b">>
Ab          == <<"A","b">>
ab_padded   == <<" ","a","b">>
cd          == <<"c","d">>
zz          == <<"z","z">>
ManAtArms   == <<"M","a","n","-","A","t","-","A","r","m","s">>
ManAtArmsQ  == <<"M","a","n"," ","a","t"," ","A","r","m","s">>
x_id        == <<"x">>
elite_x     == Elite \o <<"x">>
elite_y     == Elite \o <<"y">>
brit        == <<"b","r">>
c_id        == <<"c">>
d_id        == <<"d">>

\* the (key, value) pairs of a JSON object have distinct keys
DistinctKeys(s) == \A j, k \in 1..Len(s) : j # k => s[j].k # s[k].k

\* the identifiers of a list of records are unique where present
UniqueIds(s) ==
    \A j, k \in 1..Len(s) : (j # k /\ Truthy(s[j].id)) => s[j].id # s[k].id

ObjValues ==
    {PyStr(ab), PyStr(Ab), PyStr(ab_padded), PyStr(ManAtArms),
     PyStr(ManAtArmsSpaced), PyStr(<<" ">>), PyNone}

ObjectMaps ==
    {s \in SeqsUpTo([k : {3, 5, 23}, v : ObjValues], MaxObjects) : DistinctKeys(s)}

QueryNames == {ab, Ab, ManAtArmsQ, zz}

UnitLists ==
    {s \in SeqsUpTo([id : {PyStr(x_id), PyStr(elite_x), PyStr(elite_y), PyNone},
                     name : {PyStr(ab), PyStr(cd), PyStr(zz), PyNone}],
                    MaxEntries) : UniqueIds(s)}

ObjectFiles ==
    SUBSET {SrcFile("objects", 3, ExtJpg), SrcFile("objects", 3, ExtWebp),
            SrcFile("objects", 5, ExtJpeg)}

CivLists ==
    {s \in SeqsUpTo([id : {PyStr(c_id), PyStr(d_id), PyStr(<<>>)},
                     name : {PyStr(brit), PyNone}],
                    MaxEntries) : UniqueIds(s)}

CivValues ==
    {[t |-> "dict", hasName |-> TRUE, hasId |-> TRUE, name |-> brit, id |-> PyInt(1)],
     [t |-> "dict", hasName |-> TRUE, hasId |-> TRUE, name |-> brit, id |-> PyNone],
     [t |-> "dict", hasName |-> TRUE, hasId |-> TRUE, name |-> zz, id |-> PyInt(2)],
     [t |-> "str"]}

CivFiles ==
    SUBSET {SrcFile("civilizations", 1, ExtJpg), SrcFile("civilizations", 1, ExtWebp)}

\* datasets that exercise the indices, one unit to resolve
IndexRuns ==
    /\ objects \in ObjectMaps
    /\ units \in {<<>>} \cup {<<[id |-> PyStr(x_id), name |-> PyStr(q)]>> : q \in QueryNames}
    /\ srcFiles = {SrcFile("objects", 3, ExtPng), SrcFile("objects", 23, ExtJpg)}
    /\ civilizations = <<>>
    /\ civs = <<>>

\* unit lists and icon files over a fixed dataset
UnitRuns ==
    /\ objects = <<[k |-> 3, v |-> PyStr(ab)], [k |-> 5, v |-> PyStr(cd)]>>
    /\ units \in UnitLists
    /\ srcFiles \in ObjectFiles
    /\ civilizations = <<>>
    /\ civs = <<>>

\* civilisation lists, civilisation datasets and icon files
CivRuns ==
    /\ objects = <<>>
    /\ units = <<>>
    /\ civilizations \in SeqsUpTo(CivValues, 2)
    /\ civs \in CivLists
    /\ srcFiles \in CivFiles

EmptyManifest ==
    [units |-> EmptyFun, civilisations |-> EmptyFun,
     unmatched_units |-> <<>>, unmatched_civs |-> <<>>]

\* lines 14-19 and 78-83: the inputs are read, the output directories exist
Init ==
    /\ IndexRuns \/ UnitRuns \/ CivRuns
    /\ pc = "name_to_objid"
    /\ i = 1
    /\ name_to_objid = <<>>
    /\ civ_name_to_iconid = EmptyFun
    /\ norm_to_objid = EmptyFun
    /\ manifest = EmptyManifest
    /\ outFiles = EmptyFun
    /\ copies = <<>>
    /\ written = PyNone
    /\ arg = <<>> /\ res1 = <<>> /\ res2 = <<>>

Next ==
    \/ BuildNameToObjid
    \/ BuildCivNameToIconid
    \/ BuildNormToObjid
    \/ UnitSkip
    \/ UnitEliteNoObjid
    \/ UnitNoObjid
    \/ UnitMatched
    \/ UnitEliteNoFile
    \/ UnitNoFile
    \/ UnitsDone
    \/ CivSkip
    \/ CivNoIconId
    \/ CivNoFile
    \/ CivMatched
    \/ CivsDone
    \/ WriteManifest

Spec == Init /\ [][Next]_vars

(***************************************************************************)
(* norm as a function of its argument: the argument ranges over every      *)
(* string of at most MaxLen characters of NormAlphabet.                    *)
(***************************************************************************)
NormAlphabet == {"a", "A", " ", "-", "(", ")", "U+00E2", "U+20AC", "U+2122"}

InitNorm ==
    /\ arg \in SeqsUpTo(NormAlphabet, MaxLen)
    /\ res1 = <<>> /\ res2 = <<>>
    /\ pc = "norm"
    /\ i = 1
    /\ objects = <<>> /\ civilizations = <<>> /\ units = <<>> /\ civs = <<>>
    /\ srcFiles = {}
    /\ name_to_objid = <<>>
    /\ civ_name_to_iconid = EmptyFun
    /\ norm_to_objid = EmptyFun
    /\ manifest = EmptyManifest
    /\ outFiles = EmptyFun
    /\ copies = <<>>
    /\ written = PyNone

\* norm(arg)
NormOnce ==
    /\ pc = "norm"
    /\ res1' = norm(arg)
    /\ pc' = "normed"
    /\ UNCHANGED <<inputs, i, name_to_objid, civ_name_to_iconid, norm_to_objid,
                   manifest, outFiles, copies, written, arg, res2>>

\* norm(norm(arg))
NormTwice ==
    /\ pc = "normed"
    /\ res2' = norm(res1)
    /\ pc' = "renormed"
    /\ UNCHANGED <<inputs, i, name_to_objid, civ_name_to_iconid, norm_to_objid,
                   manifest, outFiles, copies, written, arg, res1>>

NextNorm == NormOnce \/ NormTwice

SpecNorm == InitNorm /\ [][NextNorm]_vars

(***************************************************************************)
(* Properties.                                                             *)
(***************************************************************************)
RunPcs == {"name_to_objid", "civ_name_to_iconid", "norm_to_objid",
           "units", "civs", "write", "done"}
ExactBuilt == pc \in RunPcs \ {"name_to_objid"}
IndicesBuilt == pc \in {"units", "civs", "write", "done"}

\* the objects that carry a non-empty string name
Named == {j \in 1..Len(objects) :
              objects[j].v.t = "str" /\ Strip(objects[j].v.s) # <<>>}
NameOf(j) == Strip(objects[j].v.s)
IdsOfName(name) == {objects[j].k : j \in {n \in Named : NameOf(n) = name}}
IdsOfNorm(key) == {objects[j].k : j \in {n \in Named : norm(NameOf(n)) = key}}

\* C1: once the exact index is built its keys are the names of the dataset,
\* and every name maps to the numerically smallest id that carries it,
\* whatever the iteration order of the dataset
C1_ExactIndexSmallestId ==
    ExactBuilt =>
        /\ DictKeys(name_to_objid) = {NameOf(j) : j \in Named}
        /\ \A name \in DictKeys(name_to_objid) :
               DictGet(name_to_objid, name) = MinOf(IdsOfName(name))

\* C1 witness: a name carried by two ids, the larger id iterated first
C1_Witness ==
    /\ ExactBuilt
    /\ \E j, k \in Named :
           j < k /\ NameOf(j) = NameOf(k) /\ objects[j].k > objects[k].k

\* C2: every key of the normalized index maps to the numerically smallest id
\* among the names that normalize to it, whatever the iteration order
C2_NormIndexSmallestId ==
    IndicesBuilt =>
        \A key \in DOMAIN norm_to_objid :
            norm_to_objid[key] = MinOf(IdsOfNorm(key))

Queries == QueryNames \cup {ManAtArms, ManAtArmsSpaced, ab_padded}
Alias(q) == Replace(norm(q), ManAtArmsSpaced, ManAtArmsHyphen)

\* C3: with the indices as built (they do not change afterwards), find_objid
\* returns the exact index's id whenever the name is a key of it, the
\* normalized index's id only when the exact lookup misses, the alias lookup's
\* id only when both miss, and None only when all three miss
C3_ResolutionOrder ==
    (pc = "units" /\ i = 1) =>
        \A q \in Queries :
            LET r == find_objid(q)
                exact == DictHas(name_to_objid, q)
                normd == norm(q) \in DOMAIN norm_to_objid
                alias == Alias(q) \in DOMAIN norm_to_objid
            IN  /\ exact => r = [objid |-> PyInt(DictGet(name_to_objid, q)),
                                 matched_name |-> PyStr(q)]
                /\ (~exact /\ normd) =>
                       r = [objid |-> PyInt(norm_to_objid[norm(q)]),
                            matched_name |-> PyNone]
                /\ (~exact /\ ~normd /\ alias) =>
                       r = [objid |-> PyInt(norm_to_objid[Alias(q)]),
                            matched_name |-> PyNone]
                /\ (r.objid = PyNone) <=> (~exact /\ ~normd /\ ~alias)

\* C3 witness: a unit was resolved through the exact index although the
\* normalized index holds another id for its name
C3_Witness ==
    /\ pc = "done"
    /\ Len(units) = 1
    /\ LET q == units[1].name.s
       IN  /\ DictHas(name_to_objid, q)
           /\ norm(q) \in DOMAIN norm_to_objid
           /\ norm_to_objid[norm(q)] # DictGet(name_to_objid, q)
           /\ x_id \in DOMAIN manifest.units
           /\ manifest.units[x_id].objectId = PyInt(DictGet(name_to_objid, q))

\* the exact index maps "Man-At-Arms" to 23
ManAtArmsIs23 ==
    /\ IndicesBuilt
    /\ DictHas(name_to_objid, ManAtArms)
    /\ DictGet(name_to_objid, ManAtArms) = 23

\* C4 as claimed: "Man at Arms" misses the exact and the normalized lookup and
\* resolves to 23 through the alias rewrite
C4_AliasScenario ==
    ManAtArmsIs23 =>
        /\ ~DictHas(name_to_objid, ManAtArmsQ)
        /\ norm(ManAtArmsQ) = ManAtArmsSpaced
        /\ ManAtArmsSpaced \notin DOMAIN norm_to_objid
        /\ ManAtArmsHyphen \in DOMAIN norm_to_objid
        /\ find_objid(ManAtArmsQ).objid = PyInt(23)

\* C4 amended: when "Man-At-Arms" (id 23) is the only indexed name that
\* normalizes to "man at arms", "Man at Arms" misses the exact lookup and
\* resolves to 23 through the normalized lookup; the index has no key
\* "man-at-arms" for the alias rewrite to hit
C4_NormalizedScenario ==
    (/\ ManAtArmsIs23
     /\ \A name \in DictKeys(name_to_objid) :
            norm(name) = ManAtArmsSpaced => name = ManAtArms) =>
        /\ ~DictHas(name_to_objid, ManAtArmsQ)
        /\ norm(ManAtArmsQ) = ManAtArmsSpaced
        /\ ManAtArmsSpaced \in DOMAIN norm_to_objid
        /\ norm_to_objid[ManAtArmsSpaced] = 23
        /\ ManAtArmsHyphen \notin DOMAIN norm_to_objid
        /\ find_objid(ManAtArmsQ) = [objid |-> PyInt(23), matched_name |-> PyNone]

\* C4 witness: the unit "Man at Arms" ended the run matched to object 23
C4_Witness ==
    /\ pc = "done"
    /\ ManAtArmsIs23
    /\ units = <<[id |-> PyStr(x_id), name |-> PyStr(ManAtArmsQ)]>>
    /\ x_id \in DOMAIN manifest.units
    /\ manifest.units[x_id].objectId = PyInt(23)
    /\ "matchedName" \notin DOMAIN manifest.units[x_id]

\* a unit record that the loop does not skip
Valid(u) == Truthy(u.id) /\ Truthy(u.name)

\* the unit's name resolves to an object id that has an icon file
HasOwnIcon(u) ==
    LET r == find_objid(u.name.s)
    IN  /\ r.objid # PyNone
        /\ \E j \in 1..Len(Exts) : SrcFile("objects", r.objid.n, Exts[j]) \in srcFiles

UnmatchedUnitIds ==
    {manifest.unmatched_units[j].id : j \in 1..Len(manifest.unmatched_units)}
UnmatchedCivIds ==
    {manifest.unmatched_civs[j].id : j \in 1..Len(manifest.unmatched_civs)}

\* C5: at the end of the run an elite unit without an icon of its own whose
\* base unit resolved to an icon file is matched, with fallbackFrom naming the
\* base and a copy of the base's file under the same extension, wherever the
\* two stand in the list
C5_EliteFallbackAnyOrder ==
    pc = "done" =>
        \A j, k \in 1..Len(units) :
            (/\ Valid(units[j]) /\ Valid(units[k])
             /\ units[k].id.s = Elite \o units[j].id.s
             /\ HasOwnIcon(units[j])
             /\ ~HasOwnIcon(units[k])) =>
                LET base  == units[j].id.s
                    elite == units[k].id.s
                IN  /\ elite \in DOMAIN manifest.units
                    /\ "fallbackFrom" \in DOMAIN manifest.units[elite]
                    /\ manifest.units[elite].fallbackFrom = PyStr(base)
                    /\ outFiles[manifest.units[elite].src] =
                           outFiles[manifest.units[base].src]
                    /\ Suffix(manifest.units[elite].src.name) =
                           Suffix(manifest.units[base].src.name)

\* C6: an elite unit without an icon of its own whose base is not among the
\* matched units ends the run unmatched and not matched, and the manifest
\* written at the end of the run is the manifest built, also when nothing
\* resolved
C6_EliteWithoutBaseUnmatched ==
    pc = "done" =>
        /\ written = manifest
        /\ \A k \in 1..Len(units) :
            (/\ Valid(units[k])
             /\ StartsWith(units[k].id.s, Elite)
             /\ ~HasOwnIcon(units[k])
             /\ base_of(units[k].id.s) \notin DOMAIN manifest.units) =>
                /\ units[k].id.s \notin DOMAIN manifest.units
                /\ units[k].id \in UnmatchedUnitIds

\* C6 witness: a run in which nothing resolved, with an elite unit whose name
\* matched an object without icon file and whose base is in the list
C6_Witness ==
    /\ pc = "done"
    /\ DOMAIN manifest.units = {}
    /\ written = manifest
    /\ \E j, k \in 1..Len(units) :
           /\ Valid(units[j]) /\ Valid(units[k])
           /\ units[k].id.s = Elite \o units[j].id.s
           /\ find_objid(units[k].name.s).objid # PyNone
           /\ units[k].id \in UnmatchedUnitIds

\* C7: every record of an unmatched partition carries a reason
C7_UnmatchedHaveReason ==
    /\ \A j \in 1..Len(manifest.unmatched_units) :
           "reason" \in DOMAIN manifest.unmatched_units[j]
    /\ \A j \in 1..Len(manifest.unmatched_civs) :
           "reason" \in DOMAIN manifest.unmatched_civs[j]

Range(s) == {s[j] : j \in 1..Len(s)}

\* C8: norm maps the empty string to the empty
\* string, and applying it to its own result changes nothing
C8_NormIdempotent ==
    /\ (pc \in {"normed", "renormed"} /\ arg = <<>>) => res1 = <<>>
    /\ pc = "renormed" => res2 = res1

\* C8 witness: an argument with an unbalanced parenthesis and punctuation
\* whose normal form is neither empty nor the argument
C8_Witness ==
    /\ pc = "renormed"
    /\ "(" \in Range(arg) /\ ")" \notin Range(arg) /\ "-" \in Range(arg)
    /\ res1 # <<>> /\ res1 # arg
    /\ res2 = res1

MatchedSrcs ==
    {manifest.units[u].src : u \in DOMAIN manifest.units}
        \cup {manifest.civilisations[c].src : c \in DOMAIN manifest.civilisations}

\* C9: a copy out of the icon bundle takes the first existing extension in
\* the order .png, .jpg, .jpeg, .webp; the file of a matched entry is named by
\* the entry's identifier followed by the extension of the bytes it holds;
\* exactly one copy was made for each matched entry and none for any other
C9_AssetCopy ==
    (pc \in RunPcs) =>
        /\ \A n \in 1..Len(copies) :
               "key" \in DOMAIN copies[n].src =>
                   /\ copies[n].src \in srcFiles
                   /\ \E j \in 1..Len(Exts) :
                          /\ copies[n].src.ext = Exts[j]
                          /\ \A e \in 1..(j - 1) :
                                 SrcFile(copies[n].src.dir, copies[n].src.key, Exts[e])
                                     \notin srcFiles
        /\ \A u \in DOMAIN manifest.units :
               /\ manifest.units[u].src \in DOMAIN outFiles
               /\ manifest.units[u].src =
                      OutFile(UnitsDir, u \o outFiles[manifest.units[u].src].ext)
        /\ \A c \in DOMAIN manifest.civilisations :
               /\ manifest.civilisations[c].src \in DOMAIN outFiles
               /\ manifest.civilisations[c].src =
                      OutFile(CivsDir, c \o outFiles[manifest.civilisations[c].src].ext)
        /\ \A p \in MatchedSrcs :
               Cardinality({n \in 1..Len(copies) : copies[n].dst = p}) = 1
        /\ Len(copies) = Cardinality(MatchedSrcs)
        /\ DOMAIN outFiles = MatchedSrcs

\* C9 witness: object 3 has a .jpg and a .webp icon and no .png, and unit x
\* was matched to it with the file x.jpg
C9_Witness ==
    /\ pc = "done"
    /\ SrcFile("objects", 3, ExtJpg) \in srcFiles
    /\ SrcFile("objects", 3, ExtWebp) \in srcFiles
    /\ SrcFile("objects", 3, ExtPng) \notin srcFiles
    /\ x_id \in DOMAIN manifest.units
    /\ manifest.units[x_id].src = OutFile(UnitsDir, x_id \o ExtJpg)
    /\ outFiles[manifest.units[x_id].src] = SrcFile("objects", 3, ExtJpg)

\* C10 as claimed: at the end of the run the matched and the unmatched
\* partition of each type together hold as many records as the input list
C10_EveryEntryInOnePartition ==
    pc = "done" =>
        /\ Cardinality(DOMAIN manifest.units) + Len(manifest.unmatched_units)
               = Len(units)
        /\ Cardinality(DOMAIN manifest.civilisations) + Len(manifest.unmatched_civs)
               = Len(civs)

\* C10 amended: at the end of the run every entry that has an identifier and
\* a name is in exactly one of its two partitions, an entry without one of
\* them is in neither, and the two partitions together hold as many records
\* as the list has entries with an identifier and a name
C10_ValidEntryInOnePartition ==
    pc = "done" =>
        /\ \A j \in 1..Len(units) :
               Valid(units[j]) =>
                   (units[j].id.s \in DOMAIN manifest.units)
                       # (units[j].id \in UnmatchedUnitIds)
        /\ \A j \in 1..Len(civs) :
               Valid(civs[j]) =>
                   (civs[j].id.s \in DOMAIN manifest.civilisations)
                       # (civs[j].id \in UnmatchedCivIds)
        /\ Cardinality(DOMAIN manifest.units) + Len(manifest.unmatched_units)
               = Cardinality({j \in 1..Len(units) : Valid(units[j])})
        /\ Cardinality(DOMAIN manifest.civilisations) + Len(manifest.unmatched_civs)
               = Cardinality({j \in 1..Len(civs) : Valid(civs[j])})

\* C10 witness: a list with a matched unit and a unit without a name
C10_Witness ==
    /\ pc = "done"
    /\ Len(units) = 2
    /\ Valid(units[1]) /\ ~Valid(units[2])
    /\ units[1].id.s \in DOMAIN manifest.units
    /\ Len(manifest.unmatched_units) = 0

====
